---- MODULE Spec2Model ----
(***************************************************************************)
(* Model of the MPC control loop of src/src/main.cpp: the uWS onMessage    *)
(* handler (frame check, hasData, JSON parse, waypoint transform, polyfit, *)
(* state estimate, mpc.Solve, command extraction, send) and the helpers    *)
(* hasData, polyeval, polyfit and deg2rad.                                 *)
(*                                                                         *)
(* Numbers are fixed point.  Lengths and polynomial coefficients are       *)
(* integers; angles are milliradians; throttle and the transmitted         *)
(* steering value are thousandths; cos and sin are exact rationals over    *)
(* One (= 5*cos(0)), so car-frame coordinates are stored in units of 1/One.*)
(* MPC::Solve (MPC.cpp) is modelled from the design specification,        *)
(* sections 4.4 and 4.5, and from the way main.cpp reads its result.       *)
(***************************************************************************)
EXTENDS Integers, Sequences, FiniteSets, TLC

\* Total number of messages the transport delivers in a behaviour.
MaxMsgs == 2
\* Magnitude of the polynomial coefficients the fit may return.
MaxCoeff == 1
\* Horizon length N of the optimizer (MPC.cpp).
HorizonN == 3

VARIABLES
  ndebug,      \* build flavour: TRUE when assert() is compiled out
  pending,     \* messages waiting in the socket, not yet dispatched
  received,    \* messages dispatched to onMessage so far
  returned,    \* onMessage invocations that have returned
  pc,          \* position of the (single) handler thread
  sdata,       \* the message being handled
  j,           \* json::parse(s)
  ptsx_car, ptsy_car,
  coeffs,
  state,
  horizon,     \* what the optimizer computed (MPC-internal)
  solutions,   \* the vector mpc.Solve returned
  out,         \* the message this cycle sent with ws.send
  solveCalls,  \* mpc.Solve calls of this cycle
  sends        \* ws.send calls of this cycle

vars == <<ndebug, pending, received, returned, pc, sdata, j, ptsx_car, ptsy_car,
          coeffs, state, horizon, solutions, out, solveCalls, sends>>

----------------------------------------------------------------------------
\* Strings.  A message is a sequence of tokens: a token is one character, or
\* a run of JSON text (an event name and the opening of its data object)
\* that contains none of the characters hasData looks for.  The run is named
\* by its index in Payloads, which gives the value it parses to.

Fields == {"ptsx", "ptsy", "x", "y", "psi", "speed"}

NoJson == [event |-> "", fields |-> {}, ptsx |-> <<>>, ptsy |-> <<>>,
           x |-> 0, y |-> 0, psi |-> 0, speed |-> 0]

Ch(c) == [ch |-> c, id |-> 0]

Js(i) == [ch |-> "", id |-> i]

npos == 0

\* std::string::find(pat): the first position where pat occurs, else npos.
Find(s, pat) ==
  LET hits == {i \in 1..Len(s) : /\ i + Len(pat) - 1 <= Len(s)
                                 /\ SubSeq(s, i, i + Len(pat) - 1) = pat}
  IN IF hits = {} THEN npos ELSE CHOOSE i \in hits : \A k \in hits : i <= k

\* std::string::rfind(pat): the last position where pat occurs, else npos.
RFind(s, pat) ==
  LET hits == {i \in 1..Len(s) : /\ i + Len(pat) - 1 <= Len(s)
                                 /\ SubSeq(s, i, i + Len(pat) - 1) = pat}
  IN IF hits = {} THEN npos ELSE CHOOSE i \in hits : \A k \in hits : i >= k

\* std::string::substr(pos, len): len is a size_t, so a negative length wraps
\* to a huge one and the substring runs to the end of the string.
Substr(s, pos, len) ==
  IF len < 0 \/ pos + len - 1 > Len(s) THEN SubSeq(s, pos, Len(s))
  ELSE SubSeq(s, pos, pos + len - 1)

hasData(s) ==
  LET found_null == Find(s, <<Ch("n"), Ch("u"), Ch("l"), Ch("l")>>)
      b1 == Find(s, <<Ch("[")>>)
      b2 == RFind(s, <<Ch("}"), Ch("]")>>)
  IN IF found_null # npos THEN <<>>
     ELSE IF b1 # npos /\ b2 # npos THEN Substr(s, b1, b2 - b1 + 2)
     ELSE <<>>

\* "42" at the start of the message means a websocket message event.
IsEvent(s) == Len(s) > 2 /\ s[1] = Ch("4") /\ s[2] = Ch("2")

----------------------------------------------------------------------------
\* Numeric helpers.

\* pow(x, i) of <math.h>; pow(0, 0) is 1.
RECURSIVE Pow(_, _)
Pow(x, i) == IF i = 0 THEN 1 ELSE x * Pow(x, i - 1)

\* pi(), in thousandths.
PiMilli == 3142

\* deg2rad(x) == x * pi() / 180, in milliradians.
deg2rad(x) == (x * PiMilli) \div 180

\* The headings the model draws, in milliradians: 0, atan(3/4), pi/2 and
\* -atan(4/3).  For these cos and sin are exact rationals over One.
Headings == {0, 644, 1571, -927}

\* cos(psi) * One.
Cos(psi) == CASE psi = 0 -> 5 [] psi = 644 -> 4 [] psi = 1571 -> 0 [] psi = -927 -> 3

\* sin(psi) * One.
Sin(psi) == CASE psi = 0 -> 0 [] psi = 644 -> 3 [] psi = 1571 -> 5 [] psi = -927 -> -4

One == Cos(0)

\* atan(k) of an integer slope k, in milliradians (odd; pi/2 - 1/k for large k).
Atan(k) ==
  LET pos(n) == CASE n = 0 -> 0 [] n = 1 -> 785 [] n = 2 -> 1107 [] n = 3 -> 1249
                  [] OTHER -> (PiMilli \div 2) - (1000 \div n)
  IN IF k < 0 THEN 0 - pos(0 - k) ELSE pos(k)

\* Evaluate a polynomial.
RECURSIVE polyevalLoop(_, _, _, _)
polyevalLoop(c, x, i, result) ==
  IF ~(i < Len(c)) THEN result
  ELSE polyevalLoop(c, x, i + 1, result + c[i + 1] * Pow(x, i))

polyeval(c, x) == polyevalLoop(c, x, 0, 0)

----------------------------------------------------------------------------
\* polyfit.

\* The order of the fit: polyfit(ptsx_car, ptsy_car, 3).
FitOrder == 3

CoeffSet == [1..(FitOrder + 1) -> (0 - MaxCoeff)..MaxCoeff]

\* The two assertions at the head of polyfit.
PolyfitAsserts(xvals, yvals, order) ==
  /\ Len(xvals) = Len(yvals)
  /\ order >= 1 /\ order <= Len(xvals) - 1

\* Row j of the least-squares system A c = y is satisfied exactly by c.  The
\* car-frame coordinates are X/One and Y/One, so the row
\*   sum_i c[i] * (X/One)^i = Y/One
\* is multiplied through by One^order.
RECURSIVE RowSum(_, _, _, _)
RowSum(c, X, order, i) ==
  IF i > order THEN 0
  ELSE c[i + 1] * Pow(X, i) * Pow(One, order - i) + RowSum(c, X, order, i + 1)

RowExact(c, X, Y, order) == RowSum(c, X, order, 0) = Y * Pow(One, order - 1)

\* What A.householderQr().solve(yvals) can return.  When a coefficient
\* vector of CoeffSet satisfies every row, the least-squares solution is such
\* a vector; otherwise the solution is a floating-point vector the model
\* stands for by an arbitrary member of CoeffSet.
polyfit(xvals, yvals, order) ==
  LET exact == {c \in CoeffSet :
                  \A i \in 1..Len(xvals) : RowExact(c, xvals[i], yvals[i], order)}
  IN IF exact # {} THEN exact ELSE CoeffSet

\* Values an out-of-bounds or uninitialised read can yield.
Garbage == {-7, 0}

----------------------------------------------------------------------------
\* Waypoint transform (global frame to car frame), one waypoint.

\* CarY with the rotation applied in the wrong direction.
CarYRotatedForward(gx, gy, px, py, psi) ==
  Sin(psi) * (gx - px) + Cos(psi) * (gy - py)

CarX(gx, gy, px, py, psi) ==
  LET dx_global == gx - px
      dy_global == gy - py
  IN Cos(psi) * dx_global + Sin(psi) * dy_global

CarY(gx, gy, px, py, psi) ==
  LET dx_global == gx - px
      dy_global == gy - py
  IN (0 - Sin(psi)) * dx_global + Cos(psi) * dy_global

\* ptsy[i], or what the read past the end of ptsy yields.
At(seq, i, g) == IF i <= Len(seq) THEN seq[i] ELSE g

\* The loop over all waypoints: ptsx_car has ptsx.size() entries and
\* ptsy_car has ptsy.size() entries; the loop runs over ptsx.size().
PtsxCar(t, g) ==
  [i \in 1..Len(t.ptsx) |-> CarX(t.ptsx[i], At(t.ptsy, i, g), t.x, t.y, t.psi)]

PtsyCar(t, g) ==
  [i \in 1..Len(t.ptsy) |->
     IF i <= Len(t.ptsx) THEN CarY(t.ptsx[i], t.ptsy[i], t.x, t.y, t.psi) ELSE g]

----------------------------------------------------------------------------
\* State estimate.

\* InitialState with the heading error taken with the sign of the slope.
InitialStateSlopeSign(v, c) == <<0, 0, 0, v, polyevalLoop(c, 0, 0, 0), Atan(c[2])>>

InitialState(v, c) ==
  LET cte == polyeval(c, 0) - 0
      epsi == 0 - Atan(c[2])
      px_initial == 0
      py_initial == 0
      psi_initial == 0
  IN <<px_initial, py_initial, psi_initial, v, cte, epsi>>

----------------------------------------------------------------------------
\* The messages the transport delivers.

Tel(ptsx, ptsy, x, y, psi, speed) ==
  [event |-> "telemetry", fields |-> Fields, ptsx |-> ptsx, ptsy |-> ptsy,
   x |-> x, y |-> y, psi |-> psi, speed |-> speed]

\* The JSON texts the messages carry.
Payloads ==
  << \* records that satisfy the telemetry interface (equal length >= 4)
     Tel(<<0, 10, 20, 30>>, <<0, 0, 0, 0>>, 0, 0, 0, 0),
     Tel(<<0, 1, 2, 3>>, <<1, 2, 3, 4>>, 0, 0, 0, 3),
     Tel(<<0, 1, 2, 3>>, <<-1, 0, 3, 8>>, 0, 0, 0, 3),
     Tel(<<0, 1, 2, 3>>, <<0, 0, 6, 24>>, 0, 0, 0, 1),
     Tel(<<3, 4, 5, 6, 7>>, <<6, 3, 2, -3, -18>>, 4, 2, 0, 3),
     Tel(<<1, 5, 9, 13>>, <<2, 5, 8, 11>>, 1, 2, 644, 3),
     Tel(<<0, -1, -8, -27>>, <<2, 3, 4, 5>>, 1, 2, 1571, 1),
     Tel(<<0, 3, 6, 9>>, <<0, -4, -8, -12>>, 0, 0, -927, 0),
     Tel(<<0, 1, 2, 3, 4>>, <<0, 1, 0, 1, 0>>, 0, 0, 0, 3),
     \* too few waypoints, or ptsx and ptsy of unequal length
     Tel(<<0, 10>>, <<0, 0>>, 0, 0, 0, 3),
     Tel(<<0, 1, 2, 3>>, <<0, 1, 4>>, 0, 0, 0, 3),
     Tel(<<0, 1, 2>>, <<0, 1, 2, 3>>, 1, 0, 1571, 3),
     \* a telemetry event whose data object lacks ptsx and ptsy
     [event |-> "telemetry", fields |-> {"x", "y", "psi", "speed"},
      ptsx |-> <<>>, ptsy |-> <<>>, x |-> 1, y |-> 2, psi |-> 0, speed |-> 3],
     \* an event that is not telemetry
     [NoJson EXCEPT !.event = "status"],
     \* the text "telemetry", that precedes a null data object
     [NoJson EXCEPT !.event = "telemetry"] >>

TelemetryNull == Len(Payloads)

\* json::parse: the text parses when it is [ <json text> }] ; anything else
\* throws parse_error.
ParseOk(s) ==
  /\ Len(s) = 4
  /\ s[1] = Ch("[") /\ s[3] = Ch("}") /\ s[4] = Ch("]")
  /\ s[2].id \in 1..Len(Payloads)

JsonParse(s) == Payloads[s[2].id]

Frame(i) == <<Ch("4"), Ch("2"), Ch("["), Js(i), Ch("}"), Ch("]")>>

Messages ==
  { Frame(i) : i \in 1..(Len(Payloads) - 1) }
  \cup
  { <<Ch("2")>>,                                                 \* 2 (a pong)
    <<Ch("4"), Ch("0"), Ch("["), Js(1), Ch("}"), Ch("]")>>,      \* not "42"
    <<Ch("4"), Ch("2"), Ch("x")>>,                               \* 42x
    <<Ch("4"), Ch("2"), Ch("["), Js(TelemetryNull), Ch("n"), Ch("u"), Ch("l"), Ch("l"), Ch("]")>>,
                                                                 \* 42["telemetry",null]
    <<Ch("4"), Ch("2"), Ch("["), Ch("}"), Ch("]")>>,             \* 42[}]
    <<Ch("4"), Ch("2"), Ch("}"), Ch("]"), Ch("x"), Ch("x"), Ch("["), Ch("x")>> } \* 42}]xx[x

----------------------------------------------------------------------------
\* The optimizer, MPC::Solve(state, coeffs).  It returns the first control
\* pair followed by the predicted (x_t, y_t) of the steps t > 0.  Steering
\* is in milliradians, acceleration in thousandths.

\* delta_max, deg2rad(25).
DeltaMax == deg2rad(25)

DeltaVals == {0 - DeltaMax, DeltaMax \div 2}

AccelVals == {-1000, 500}

\* The predicted path of a solve: x advances vx per step, y drifts d per step.
Paths(state0) ==
  { [x |-> [t \in 1..HorizonN |-> state0[1] + (t - 1) * vx],
     y |-> [t \in 1..HorizonN |-> state0[2] + (t - 1) * d]] :
      vx \in {2, 5}, d \in {1} }

\* A converged solve: step 0 is pinned to the initial state and every control
\* lies within its bounds.
Converged(state0) ==
  { [converged |-> TRUE, delta |-> dl, a |-> ac, x |-> p.x, y |-> p.y] :
      dl \in [1..(HorizonN - 1) -> DeltaVals],
      ac \in [1..(HorizonN - 1) -> AccelVals],
      p \in Paths(state0) }

\* A solve that did not converge within its budget: the vector holds the
\* solver's last iterate.
Failed(state0) ==
  { [converged |-> FALSE, delta |-> dl, a |-> ac, x |-> p.x, y |-> p.y] :
      dl \in [1..(HorizonN - 1) -> {0, 2 * DeltaMax}],
      ac \in [1..(HorizonN - 1) -> {1000}],
      p \in Paths(state0) }

HorizonSolutions(state0) == Converged(state0) \cup Failed(state0)

RECURSIVE PathPoints(_, _)
PathPoints(h, t) ==
  IF t > HorizonN THEN <<>> ELSE <<h.x[t], h.y[t]>> \o PathPoints(h, t + 1)

\* The vector Solve returns.
SolveResult(h) == <<h.delta[1], h.a[1]>> \o PathPoints(h, 2)

NoHorizon == [converged |-> TRUE, delta |-> <<>>, a |-> <<>>, x |-> <<>>, y |-> <<>>]

----------------------------------------------------------------------------
\* Command extraction.

\* SteerValue without the sign change.
SteerValueNotNegated(sol) == sol[1]

\* psi values are reverse in the simulator.
SteerValue(sol) == 0 - sol[1]

ThrottleValue(sol) == sol[2]

\* The loop over the rest of the solution vector (i is the C++ index).
RECURSIVE MpcLoop(_, _, _, _)
MpcLoop(sol, i, xv, yv) ==
  IF ~(i < Len(sol)) THEN <<xv, yv>>
  ELSE IF i % 2 = 0 THEN MpcLoop(sol, i + 1, Append(xv, sol[i + 1]), yv)
  ELSE MpcLoop(sol, i + 1, xv, Append(yv, sol[i + 1]))

\* MpcVals with the loop started at the head of the vector.
MpcValsFromHead(sol) == MpcLoop(sol, 0, <<>>, <<>>)

MpcVals(sol) == MpcLoop(sol, 2, <<>>, <<>>)

NoMsg == [kind |-> "none", steering_angle |-> 0, throttle |-> 0,
          mpc_x |-> <<>>, mpc_y |-> <<>>, next_x |-> <<>>, next_y |-> <<>>]

\* 42["manual",{}]
ManualMsg == [NoMsg EXCEPT !.kind = "manual"]

\* 42["steer",{...}]
SteerMsg(sol, xcar, ycar, g) ==
  [kind |-> "steer",
   steering_angle |-> SteerValue(sol),
   throttle |-> ThrottleValue(sol),
   mpc_x |-> MpcVals(sol)[1],
   mpc_y |-> MpcVals(sol)[2],
   next_x |-> xcar,
   next_y |-> [i \in 1..Len(xcar) |-> At(ycar, i, g)]]

----------------------------------------------------------------------------
\* The control loop.

Init ==
  /\ ndebug \in BOOLEAN
  /\ pending = 0
  /\ received = 0
  /\ returned = 0
  /\ pc = "idle"
  /\ sdata = <<>>
  /\ j = NoJson
  /\ ptsx_car = <<>>
  /\ ptsy_car = <<>>
  /\ coeffs = <<>>
  /\ state = <<>>
  /\ horizon = NoHorizon
  /\ solutions = <<>>
  /\ out = NoMsg
  /\ solveCalls = 0
  /\ sends = 0

\* The simulator sends a message; it waits in the socket until the hub
\* dispatches it.
Arrive ==
  /\ pc # "crashed"
  /\ received + pending < MaxMsgs
  /\ pending' = pending + 1
  /\ UNCHANGED <<ndebug, received, returned, pc, sdata, j, ptsx_car, ptsy_car,
                 coeffs, state, horizon, solutions, out, solveCalls, sends>>

\* A hub that dispatches a message while a handler is still running.
HubReentrant == pc # "crashed"

\* h.run(): the hub's loop runs on the main thread and calls onMessage for
\* one message at a time, when the previous call has returned.
HubIdle == pc = "idle"

\* onMessage, from its entry to the telemetry branch or to its exit.
OnMessage(m) ==
  /\ HubIdle
  /\ pending > 0
  /\ pending' = pending - 1
  /\ received' = received + 1
  /\ sdata' = m
  /\ IF ~IsEvent(m)
       THEN /\ pc' = "return"
            /\ UNCHANGED <<j, out, sends>>
     ELSE IF Len(hasData(m)) = 0
       THEN \* Manual driving
            /\ out' = ManualMsg
            /\ sends' = sends + 1
            /\ pc' = "return"
            /\ UNCHANGED j
     ELSE IF ~ParseOk(hasData(m))
       THEN \* json::parse throws; nothing catches it
            /\ pc' = "crashed"
            /\ UNCHANGED <<j, out, sends>>
     ELSE /\ j' = JsonParse(hasData(m))
          /\ pc' = IF j'.event = "telemetry" THEN "telemetry" ELSE "return"
          /\ UNCHANGED <<out, sends>>
  /\ UNCHANGED <<ndebug, returned, ptsx_car, ptsy_car, coeffs, state, horizon,
                 solutions, solveCalls>>

\* STEP 1: get data from the simulator.  Converting a missing (null) field
\* throws type_error; nothing catches it.
ReadTelemetry ==
  /\ pc = "telemetry"
  /\ pc' = IF Fields \subseteq j.fields THEN "transform" ELSE "crashed"
  /\ UNCHANGED <<ndebug, pending, received, returned, sdata, j, ptsx_car,
                 ptsy_car, coeffs, state, horizon, solutions, out, solveCalls,
                 sends>>

\* STEP 2, the loop over all waypoints.  With ptsy shorter than ptsx the loop
\* reads ptsy and writes ptsy_car past their ends: Eigen's index assertion
\* aborts unless assertions are compiled out, and then the behaviour is
\* undefined.  With ptsy longer, the tail of ptsy_car stays uninitialised.
Transform ==
  /\ pc = "transform"
  /\ \/ /\ Len(j.ptsx) > Len(j.ptsy)
        /\ pc' = "crashed"
        /\ UNCHANGED <<ptsx_car, ptsy_car>>
     \/ /\ Len(j.ptsx) > Len(j.ptsy) => ndebug
        /\ \E g \in (IF Len(j.ptsx) = Len(j.ptsy) THEN {0} ELSE Garbage) :
             /\ ptsx_car' = PtsxCar(j, g)
             /\ ptsy_car' = PtsyCar(j, g)
        /\ pc' = "fit"
  /\ UNCHANGED <<ndebug, pending, received, returned, sdata, j, coeffs, state,
                 horizon, solutions, out, solveCalls, sends>>

\* polyfit(ptsx_car, ptsy_car, 3).  A failed assertion aborts; with
\* assertions compiled out the solve runs on a system it was not written
\* for, and with vectors of unequal size its behaviour is undefined.
Fit ==
  /\ pc = "fit"
  /\ IF PolyfitAsserts(ptsx_car, ptsy_car, FitOrder)
       THEN /\ coeffs' \in polyfit(ptsx_car, ptsy_car, FitOrder)
            /\ pc' = "estimate"
     ELSE IF ~ndebug
       THEN /\ pc' = "crashed"
            /\ UNCHANGED coeffs
     ELSE \/ /\ coeffs' \in CoeffSet
             /\ pc' = "estimate"
          \/ /\ Len(ptsx_car) # Len(ptsy_car)
             /\ pc' = "crashed"
             /\ UNCHANGED coeffs
  /\ UNCHANGED <<ndebug, pending, received, returned, sdata, j, ptsx_car,
                 ptsy_car, state, horizon, solutions, out, solveCalls, sends>>

\* STEP 3: set initial state values.
Estimate ==
  /\ pc = "estimate"
  /\ state' = InitialState(j.speed, coeffs)
  /\ pc' = "solve"
  /\ UNCHANGED <<ndebug, pending, received, returned, sdata, j, ptsx_car,
                 ptsy_car, coeffs, horizon, solutions, out, solveCalls, sends>>

\* STEP 4: mpc.Solve(state, coeffs) is called ...
SolveCall ==
  /\ pc = "solve"
  /\ solveCalls' = solveCalls + 1
  /\ pc' = "solving"
  /\ UNCHANGED <<ndebug, pending, received, returned, sdata, j, ptsx_car,
                 ptsy_car, coeffs, state, horizon, solutions, out, sends>>

\* ... and returns.
SolveReturn ==
  /\ pc = "solving"
  /\ \E h \in HorizonSolutions(state) :
       /\ horizon' = h
       /\ solutions' = SolveResult(h)
  /\ pc' = "solved"
  /\ UNCHANGED <<ndebug, pending, received, returned, sdata, j, ptsx_car,
                 ptsy_car, coeffs, state, out, solveCalls, sends>>

\* STEP 6: build the steer message, sleep 100 ms, ws.send.
SendSteer ==
  /\ pc = "solved"
  /\ \E g \in (IF Len(ptsy_car) < Len(ptsx_car) THEN Garbage ELSE {0}) :
       out' = SteerMsg(solutions, ptsx_car, ptsy_car, g)
  /\ sends' = sends + 1
  /\ pc' = "return"
  /\ UNCHANGED <<ndebug, pending, received, returned, sdata, j, ptsx_car,
                 ptsy_car, coeffs, state, horizon, solutions, solveCalls>>

\* onMessage returns: its locals die, the hub is free for the next message.
Return ==
  /\ pc = "return"
  /\ returned' = returned + 1
  /\ pc' = "idle"
  /\ sdata' = <<>>
  /\ j' = NoJson
  /\ ptsx_car' = <<>>
  /\ ptsy_car' = <<>>
  /\ coeffs' = <<>>
  /\ state' = <<>>
  /\ horizon' = NoHorizon
  /\ solutions' = <<>>
  /\ out' = NoMsg
  /\ solveCalls' = 0
  /\ sends' = 0
  /\ UNCHANGED <<ndebug, pending, received>>

Next ==
  \/ Arrive
  \/ \E m \in Messages : OnMessage(m)
  \/ ReadTelemetry
  \/ Transform
  \/ Fit
  \/ Estimate
  \/ SolveCall
  \/ SolveReturn
  \/ SendSteer
  \/ Return

Spec == Init /\ [][Next]_vars

----------------------------------------------------------------------------
\* What the message being handled carries.

Parses(s) == IsEvent(s) /\ Len(hasData(s)) > 0 /\ ParseOk(hasData(s))

\* A telemetry event with every field the handler reads.
CompleteRecord(r) == r.event = "telemetry" /\ Fields \subseteq r.fields

\* Fewer waypoints than the fit needs, or ptsx and ptsy of unequal length.
ShortRecord(r) == Len(r.ptsx) # Len(r.ptsy) \/ Len(r.ptsx) < FitOrder + 1

\* A telemetry record as the inbound interface defines it.
RecordOk(r) == CompleteRecord(r) /\ ~ShortRecord(r)

CompleteTelemetry(s) == Parses(s) /\ CompleteRecord(JsonParse(hasData(s)))

\* A websocket event without usable telemetry: no payload (hasData rejects
\* it), malformed JSON, or a telemetry record that lacks a required field.
NoUsableTelemetry(s) ==
  /\ IsEvent(s)
  /\ \/ Len(hasData(s)) = 0
     \/ ~ParseOk(hasData(s))
     \/ /\ JsonParse(hasData(s)).event = "telemetry"
        /\ ~(Fields \subseteq JsonParse(hasData(s)).fields)

\* Telemetry with fewer waypoints than the fit needs, or ptsx and ptsy of
\* unequal length.
TooFewWaypoints(s) == CompleteTelemetry(s) /\ ShortRecord(JsonParse(hasData(s)))

Handling == pc # "idle"

----------------------------------------------------------------------------
\* C1: a message that carries no usable telemetry (no payload, a payload
\* hasData rejects, malformed JSON, a record missing required fields) is
\* answered with the neutral manual command, mpc.Solve is not called, and
\* the handler comes to its end.
C1_NoTelemetryIsNeutral ==
  (Handling /\ NoUsableTelemetry(sdata)) =>
     /\ pc # "crashed"
     /\ solveCalls = 0
     /\ pc = "return" => (out.kind = "manual" /\ sends = 1)

\* C2: telemetry with fewer than degree + 1 waypoints, or with ptsx and ptsy
\* of unequal length, takes an error path: the cycle does not abort, a
\* neutral command is sent and mpc.Solve is not called.
C2_TooFewWaypointsIsNeutral ==
  (Handling /\ TooFewWaypoints(sdata)) =>
     /\ pc # "crashed"
     /\ solveCalls = 0
     /\ pc = "return" => (out.kind = "manual" /\ sends = 1)

\* C3: when mpc.Solve did not converge (here: in a cycle of a telemetry
\* record the inbound interface admits), the command sent for the cycle is
\* the safe fallback (zero steering, no acceleration), not a value of the
\* failed solve's vector.
C3_FailedSolveFallsBack ==
  (pc = "return" /\ RecordOk(j) /\ solveCalls = 1 /\ ~horizon.converged) =>
     /\ sends = 1
     /\ out.steering_angle = 0
     /\ out.throttle <= 0

\* C4: no message puts the process in a crashed or aborted state: after any
\* sequence of messages the control loop is still running.
C4_LoopKeepsRunning == pc # "crashed"

\* C5: the transmitted steering_angle is the raw steering angle divided by
\* deg2rad(25), and so lies in [-1, 1] (thousandths: [-1000, 1000]) when the
\* solver's delta_0 lies in [-delta_max, delta_max] (here: in a cycle of a
\* telemetry record the inbound interface admits, with a converged solve).
C5_SteeringNormalized ==
  (out.kind = "steer" /\ RecordOk(j) /\ horizon.converged) =>
     /\ out.steering_angle = (SteerValue(solutions) * 1000) \div deg2rad(25)
     /\ (horizon.delta[1] >= 0 - DeltaMax /\ horizon.delta[1] <= DeltaMax)
          => (out.steering_angle >= -1000 /\ out.steering_angle <= 1000)

\* C6: the command sent is the control pair of step 0 of the solved
\* sequence: the throttle is a_0 unchanged and the steering is delta_0 with
\* its sign changed once; no control of a later step is sent.
C6_FirstControlApplied ==
  out.kind = "steer" =>
     /\ out.steering_angle = 0 - horizon.delta[1]
     /\ out.throttle = horizon.a[1]

C6_Witness ==
  /\ out.kind = "steer"
  /\ horizon.delta[1] > 0
  /\ horizon.delta[2] # horizon.delta[1]
  /\ horizon.a[2] # horizon.a[1]

\* C7: mpc_x and mpc_y have equal length, their k-th entries are the pair
\* (x_t, y_t) of horizon step t = k > 0 in horizon order, and neither list
\* holds one of the two command entries.
C7_PredictedPathPairs ==
  out.kind = "steer" =>
     /\ Len(out.mpc_x) = Len(out.mpc_y)
     /\ Len(out.mpc_x) = HorizonN - 1
     /\ \A k \in 1..Len(out.mpc_x) :
          /\ out.mpc_x[k] = horizon.x[k + 1]
          /\ out.mpc_y[k] = horizon.y[k + 1]

C7_Witness ==
  /\ out.kind = "steer"
  /\ Len(out.mpc_x) >= 2
  /\ out.mpc_x[1] # out.mpc_y[1]
  /\ out.mpc_x[1] # out.mpc_x[2]
  /\ solutions[1] # 0 /\ solutions[1] # out.mpc_x[1]

\* C8: cycles are strictly sequential.  At most one handler is running; a
\* cycle calls mpc.Solve at most once and sends at most once; the steer
\* command is sent after the solve has returned and before the handler
\* returns; and a telemetry message (equal-length waypoints, at least
\* degree + 1 of them) ends its cycle with exactly one solve and exactly one
\* command.
C8_SequentialCycles ==
  /\ received - returned = (IF pc = "idle" THEN 0 ELSE 1)
  /\ solveCalls <= 1
  /\ sends <= 1
  /\ pc \in {"telemetry", "transform", "fit", "estimate", "solve"}
       => (solveCalls = 0 /\ sends = 0)
  /\ pc = "solving" => (solveCalls = 1 /\ sends = 0 /\ Len(solutions) = 0)
  /\ pc = "solved" => (solveCalls = 1 /\ sends = 0 /\ Len(solutions) > 0)
  /\ out.kind = "steer"
       => (pc = "return" /\ solveCalls = 1 /\ sends = 1 /\ Len(solutions) > 0)
  /\ (pc = "return" /\ RecordOk(j))
       => (solveCalls = 1 /\ sends = 1 /\ out.kind = "steer")

C8_Witness ==
  /\ pc = "return"
  /\ RecordOk(j)
  /\ out.kind = "steer"
  /\ received >= 2
  /\ returned = received - 1

\* C9: the initial state handed to mpc.Solve has x = y = heading = 0, the
\* telemetry speed, cross-track error polyeval(coeffs, 0) (the constant
\* coefficient) and heading error -atan(coeffs[1]).
C9_InitialState ==
  pc \in {"solve", "solving"} =>
     /\ state[1] = 0 /\ state[2] = 0 /\ state[3] = 0
     /\ state[4] = j.speed
     /\ state[5] = polyeval(coeffs, 0)
     /\ state[5] = coeffs[1]
     /\ state[6] = 0 - Atan(coeffs[2])

C9_Witness ==
  /\ pc = "solving"
  /\ RecordOk(j)
  /\ j.speed # 0
  /\ coeffs[1] # 0 /\ coeffs[2] # 0 /\ coeffs[3] # 0 /\ coeffs[4] # 0
  /\ state[5] # 0 /\ state[6] > 0

\* C10: for equal-length waypoint lists the car-frame lists have the length
\* and order of the input, and rotating each car-frame waypoint back by the
\* heading and translating by the position gives the global waypoint.
C10_TransformRoundTrip ==
  (pc \in {"fit", "estimate", "solve", "solving", "solved"}
     /\ Len(j.ptsx) = Len(j.ptsy)) =>
     /\ Len(ptsx_car) = Len(j.ptsx)
     /\ Len(ptsy_car) = Len(j.ptsy)
     /\ \A i \in 1..Len(j.ptsx) :
          /\ One * One * j.x + Cos(j.psi) * ptsx_car[i] - Sin(j.psi) * ptsy_car[i]
               = One * One * j.ptsx[i]
          /\ One * One * j.y + Sin(j.psi) * ptsx_car[i] + Cos(j.psi) * ptsy_car[i]
               = One * One * j.ptsy[i]

C10_Witness ==
  /\ pc = "fit"
  /\ Cos(j.psi) # 0 /\ Sin(j.psi) # 0
  /\ j.x # 0 /\ j.y # 0
  /\ Len(ptsx_car) >= FitOrder + 1
  /\ ptsx_car[2] # ptsx_car[1]

====
